---------------------------- MODULE Spec2Model ----------------------------
(***************************************************************************)
(* The entity graph of a FERS model (Nodes, Members, MemberSets) and the   *)
(* graph transformer of fers_core/fers/fers.py: add_member_set,            *)
(* get_all_members, get_all_nodes, translate_model and                     *)
(* create_combined_model_pattern.                                          *)
(*                                                                         *)
(* Objects live in three heaps (sequences); an object's identity, and the  *)
(* id its constructor takes from the process-wide counter, is its index.   *)
(* None is 0.  models[1] is the model the caller builds; the models that   *)
(* translate_model and create_combined_model_pattern return are appended.  *)
(***************************************************************************)
EXTENDS Integers, Sequences, FiniteSets, TLC

VARIABLES nodes, members, member_sets, models, origin, last

vars == <<nodes, members, member_sets, models, origin, last>>

None == 0

(* ------------------------------ bounds -------------------------------- *)
MaxNodes == 3
MaxMembers == 2
MaxModelSets == 2
MaxModels == 3
MaxCount == 3
MaxCoord == 1
MaxShift == 1
MaxSupport == 1
MaxHinge == 1

Range(s) == {s[j] : j \in DOMAIN s}

(* ------------------------- entity constructors ------------------------- *)
NodeDefaultClassification == "None"

Node(X, Y, Z, nodal_support, classification) ==
    [X |-> X, Y |-> Y, Z |-> Z,
     nodal_support |-> nodal_support, classification |-> classification]

Member(start_node, end_node, section, start_hinge, end_hinge, classification, rotation_angle, chi, reference_member, reference_node) ==
    [start_node |-> start_node, end_node |-> end_node, section |-> section,
     start_hinge |-> start_hinge, end_hinge |-> end_hinge,
     classification |-> classification,
     rotation_angle |-> rotation_angle, chi |-> chi,
     reference_member |-> reference_member, reference_node |-> reference_node]

MemberSet(mems, classification, L_y, L_z, member_set_id) ==
    [members |-> mems, classification |-> classification,
     L_y |-> L_y, L_z |-> L_z, member_set_id |-> member_set_id]

(* ---------------------------- enumeration ------------------------------ *)
\* appended without the membership test
AppendAlways(acc, x) == Append(acc, x)

\* `if x.id not in ids: out.append(x); ids.add(x.id)`
AppendIfNew(acc, x) == IF x \in Range(acc) THEN acc ELSE Append(acc, x)

\* the walk `for member_set in self.member_sets: for member in member_set.members`
RECURSIVE MemberWalk(_)
MemberWalk(sets) ==
    IF sets = <<>> THEN <<>>
    ELSE member_sets[Head(sets)].members \o MemberWalk(Tail(sets))

RECURSIVE CollectMembers(_, _)
CollectMembers(walk, acc) ==
    IF walk = <<>> THEN acc
    ELSE CollectMembers(Tail(walk), AppendIfNew(acc, Head(walk)))

get_all_members(sets) == CollectMembers(MemberWalk(sets), <<>>)

\* one member's contribution to get_all_nodes: start node, then end node
VisitMemberNodes(acc, m) ==
    AppendIfNew(AppendIfNew(acc, members[m].start_node), members[m].end_node)

RECURSIVE CollectNodes(_, _)
CollectNodes(walk, acc) ==
    IF walk = <<>> THEN acc
    ELSE CollectNodes(Tail(walk), VisitMemberNodes(acc, Head(walk)))

get_all_nodes(sets) == CollectNodes(MemberWalk(sets), <<>>)

\* `if node.nodal_support: if node.nodal_support.id not in unique_nodal_supports:
\*      unique_nodal_supports[node.id] = node.nodal_support`
\* the dict is a function from its keys; the test looks the support's id up
\* among keys that are node ids
RememberSupport(unique_nodal_supports, node) ==
    IF nodes[node].nodal_support # None
          /\ nodes[node].nodal_support \notin DOMAIN unique_nodal_supports
    THEN (node :> nodes[node].nodal_support) @@ unique_nodal_supports
    ELSE unique_nodal_supports

RECURSIVE CollectSupports(_, _)
CollectSupports(walk, unique_nodal_supports) ==
    IF walk = <<>> THEN unique_nodal_supports
    ELSE CollectSupports(Tail(walk),
             RememberSupport(
                 RememberSupport(unique_nodal_supports, members[Head(walk)].start_node),
                 members[Head(walk)].end_node))

get_unique_nodal_support(sets) == CollectSupports(MemberWalk(sets), <<>>)

get_all_member_sets(k) == models[k]

(* ----------------------------- construction ---------------------------- *)
Init ==
    /\ nodes = <<>>
    /\ members = <<>>
    /\ member_sets = <<>>
    /\ models = << <<>> >>
    /\ origin = << [op |-> "FERS", model |-> None, count |-> 0, vector |-> <<0, 0, 0>>] >>
    /\ last = [op |-> "none", model |-> None, count |-> 0, vector |-> <<0, 0, 0>>,
               status |-> "none", result |-> None]

Building == Len(models) = 1 /\ last.op = "none"

NewNode(X, Y, Z, nodal_support, classification) ==
    /\ Building
    /\ members = <<>>
    /\ Len(nodes) < MaxNodes
    /\ nodes' = Append(nodes, Node(X, Y, Z, nodal_support, classification))
    /\ UNCHANGED <<members, member_sets, models, origin, last>>

NewMember(start_node, end_node, section, start_hinge, end_hinge, classification, reference_member, reference_node) ==
    /\ Building
    /\ member_sets = <<>>
    /\ Len(members) < MaxMembers
    /\ start_node # end_node
    /\ members' = Append(members,
                         Member(start_node, end_node, section, start_hinge, end_hinge,
                                classification, None, None,
                                reference_member, reference_node))
    /\ UNCHANGED <<nodes, member_sets, models, origin, last>>

\* FERS.add_member_set(*member_sets): `for member_set in member_sets: append`
add_member_set(model_sets, sets) == model_sets \o sets

\* model.add_member_set(MemberSet(members=mems, classification=...))
AddNewMemberSet(mems, classification) ==
    /\ Building
    /\ Len(models[1]) < MaxModelSets
    /\ member_sets' = Append(member_sets,
                             MemberSet(mems, classification, None, None,
                                       Len(member_sets) + 1))
    /\ models' = [models EXCEPT ![1] = add_member_set(@, <<Len(member_sets) + 1>>)]
    /\ UNCHANGED <<nodes, members, origin, last>>

(* --------------------------- translate_model --------------------------- *)
IndexOf(seq, x) == CHOOSE j \in DOMAIN seq : seq[j] = x

Call(op, model, count, vector) ==
    [op |-> op, model |-> model, count |-> count, vector |-> vector]

Outcome(op, model, count, vector, status, result) ==
    [op |-> op, model |-> model, count |-> count, vector |-> vector,
     status |-> status, result |-> result]

\* Z taken from the vector alone
TranslatedNodeFlat(original_node, translation_vector) ==
    Node(original_node.X + translation_vector[1],
         original_node.Y + translation_vector[2],
         translation_vector[3],
         None, NodeDefaultClassification)

\* Node(X=original_node.X + v[0], Y=original_node.Y + v[1], Z=original_node.Z + v[2])
TranslatedNode(original_node, translation_vector) ==
    Node(original_node.X + translation_vector[1],
         original_node.Y + translation_vector[2],
         original_node.Z + translation_vector[3],
         None, NodeDefaultClassification)

\* node_translation_map[original_node.id] = translated_node, over get_all_nodes()
NodeTranslationMap(all_nodes, first_free) ==
    [id \in Range(all_nodes) |-> first_free + IndexOf(all_nodes, id)]

\* the hinges left at their defaults
TranslatedMemberNoHinges(member, node_translation_map) ==
    Member(node_translation_map[member.start_node],
           node_translation_map[member.end_node],
           member.section, None, None,
           member.classification, None, None, None, None)

TranslatedMember(member, node_translation_map) ==
    Member(node_translation_map[member.start_node],
           node_translation_map[member.end_node],
           member.section, member.start_hinge, member.end_hinge,
           member.classification, None, None, None, None)

\* the loop over model.get_all_member_sets(); st is the heap built so far
RECURSIVE TranslateSets(_, _, _)
TranslateSets(sets, node_translation_map, st) ==
    IF sets = <<>> THEN st
    ELSE LET original_member_set == member_sets[Head(sets)]
             walk == original_member_set.members
             new_members == [j \in DOMAIN walk |->
                               TranslatedMember(members[walk[j]], node_translation_map)]
             new_ids == [j \in DOMAIN walk |-> Len(st.members) + j]
             new_member_set == MemberSet(new_ids, original_member_set.classification,
                                         None, None, original_member_set.member_set_id)
         IN TranslateSets(Tail(sets), node_translation_map,
                [members |-> st.members \o new_members,
                 member_sets |-> Append(st.member_sets, new_member_set),
                 new_model |-> Append(st.new_model, Len(st.member_sets) + 1)])

translate_model(k, translation_vector) ==
    /\ LET sets == get_all_member_sets(k)
           all_nodes == get_all_nodes(sets)
           node_translation_map == NodeTranslationMap(all_nodes, Len(nodes))
           translated == [j \in DOMAIN all_nodes |->
                            TranslatedNode(nodes[all_nodes[j]], translation_vector)]
           st == TranslateSets(sets, node_translation_map,
                               [members |-> members, member_sets |-> member_sets,
                                new_model |-> <<>>])
       IN /\ nodes' = nodes \o translated
          /\ members' = st.members
          /\ member_sets' = st.member_sets
          /\ models' = Append(models, st.new_model)
          /\ origin' = Append(origin, Call("translate_model", k, 0, translation_vector))
          /\ last' = Outcome("translate_model", k, 0, translation_vector, "ok",
                             Len(models) + 1)

(* -------------------- create_combined_model_pattern -------------------- *)
KeyError == -1

\* the spacing itself, whatever the copy index
TotalTranslationOnce(spacing_vector, i) == spacing_vector

\* total_translation = (spacing_vector[0] * i, spacing_vector[1] * i, spacing_vector[2] * i)
TotalTranslation(spacing_vector, i) ==
    <<spacing_vector[1] * i, spacing_vector[2] * i, spacing_vector[3] * i>>

\* the body of `for original_node in original_model.get_all_nodes()` for copy i;
\* st.node_mapping is the dict, st.nodes the node heap
RECURSIVE NodePass(_, _, _, _)
NodePass(i, walk, spacing_vector, st) ==
    IF walk = <<>> THEN st
    ELSE LET original_node == nodes[Head(walk)]
             total_translation == TotalTranslation(spacing_vector, i)
             new_node_coords == <<original_node.X + total_translation[1],
                                  original_node.Y + total_translation[2],
                                  original_node.Z + total_translation[3]>>
         IN IF new_node_coords \notin DOMAIN st.node_mapping
            THEN NodePass(i, Tail(walk), spacing_vector,
                     [node_mapping |-> (<<Head(walk), i>> :> (Len(st.nodes) + 1))
                                       @@ st.node_mapping,
                      nodes |-> Append(st.nodes,
                                       Node(new_node_coords[1], new_node_coords[2],
                                            new_node_coords[3],
                                            original_node.nodal_support,
                                            original_node.classification))])
            ELSE NodePass(i, Tail(walk), spacing_vector, st)

\* range(1, count + 1): one copy too many
RECURSIVE NodeCopiesInclusive(_, _, _, _, _)
NodeCopiesInclusive(i, count, all_nodes, spacing_vector, st) ==
    IF i > count THEN st
    ELSE NodeCopiesInclusive(i + 1, count, all_nodes, spacing_vector,
                             NodePass(i, all_nodes, spacing_vector, st))

\* first `for i in range(1, count)`
RECURSIVE NodeCopies(_, _, _, _, _)
NodeCopies(i, count, all_nodes, spacing_vector, st) ==
    IF i >= count THEN st
    ELSE NodeCopies(i + 1, count, all_nodes, spacing_vector,
                    NodePass(i, all_nodes, spacing_vector, st))

\* node_mapping.get(key): None instead of a KeyError
LookupOrNone(node_mapping, key) ==
    IF key \in DOMAIN node_mapping THEN node_mapping[key] ELSE None

\* node_mapping[key]
Lookup(node_mapping, key) ==
    IF key \in DOMAIN node_mapping THEN node_mapping[key] ELSE KeyError

\* member_mapping[member].append(new_member), the list created when absent
Remember(member_mapping, member, new_member) ==
    IF member \in DOMAIN member_mapping
    THEN [member_mapping EXCEPT ![member] = Append(@, new_member)]
    ELSE (member :> <<new_member>>) @@ member_mapping

\* reference_node=member.reference_node: the source Node passed on as it is
RECURSIVE CopyMembersKeepReference(_, _, _, _)
CopyMembersKeepReference(i, walk, node_mapping, st) ==
    IF walk = <<>> \/ st.error THEN st
    ELSE LET member == members[Head(walk)]
             new_start_node == Lookup(node_mapping, <<member.start_node, i>>)
             new_end_node == Lookup(node_mapping, <<member.end_node, i>>)
             new_member == Len(st.members) + 1
         IN IF KeyError \in {new_start_node, new_end_node}
            THEN [st EXCEPT !.error = TRUE]
            ELSE CopyMembersKeepReference(i, Tail(walk), node_mapping,
                     [st EXCEPT
                        !.members = Append(@,
                            Member(new_start_node, new_end_node, member.section,
                                   member.start_hinge, member.end_hinge,
                                   member.classification, member.rotation_angle,
                                   member.chi, member.reference_member,
                                   member.reference_node)),
                        !.member_mapping = Remember(@, Head(walk), new_member),
                        !.new_members = Append(@, new_member)])

\* `for member in original_member_set.members` for copy i
RECURSIVE CopyMembers(_, _, _, _)
CopyMembers(i, walk, node_mapping, st) ==
    IF walk = <<>> \/ st.error THEN st
    ELSE LET member == members[Head(walk)]
             new_start_node == Lookup(node_mapping, <<member.start_node, i>>)
             new_end_node == Lookup(node_mapping, <<member.end_node, i>>)
             new_reference_node ==
                 IF member.reference_node # None
                 THEN Lookup(node_mapping, <<member.reference_node, i>>)
                 ELSE None
             new_member == Len(st.members) + 1
         IN IF KeyError \in {new_start_node, new_end_node, new_reference_node}
            THEN [st EXCEPT !.error = TRUE]
            ELSE CopyMembers(i, Tail(walk), node_mapping,
                     [st EXCEPT
                        !.members = Append(@,
                            Member(new_start_node, new_end_node, member.section,
                                   member.start_hinge, member.end_hinge,
                                   member.classification, member.rotation_angle,
                                   member.chi, member.reference_member,
                                   new_reference_node)),
                        !.member_mapping = Remember(@, Head(walk), new_member),
                        !.new_members = Append(@, new_member)])

\* `for original_member_set in original_model.get_all_member_sets()` for copy i
RECURSIVE CopySets(_, _, _, _)
CopySets(i, sets, node_mapping, st) ==
    IF sets = <<>> \/ st.error THEN st
    ELSE LET original_member_set == member_sets[Head(sets)]
             st1 == CopyMembers(i, original_member_set.members, node_mapping,
                                [st EXCEPT !.new_members = <<>>])
             translated_member_set ==
                 MemberSet(st1.new_members, original_member_set.classification,
                           original_member_set.L_y, original_member_set.L_z,
                           Len(st1.member_sets) + 1)
         IN IF st1.error THEN st1
            ELSE CopySets(i, Tail(sets), node_mapping,
                     [st1 EXCEPT
                        !.member_sets = Append(@, translated_member_set),
                        !.combined = Append(@, Len(st1.member_sets) + 1)])

\* second `for i in range(1, count)`
RECURSIVE MemberCopies(_, _, _, _, _)
MemberCopies(i, count, sets, node_mapping, st) ==
    IF i >= count \/ st.error THEN st
    ELSE MemberCopies(i + 1, count, sets, node_mapping,
                      CopySets(i, sets, node_mapping, st))

\* member_mapping.get(new_member.reference_member, [None])[0]
ResolveReference(member_mapping, reference_member) ==
    IF reference_member \in DOMAIN member_mapping
    THEN member_mapping[reference_member][1]
    ELSE None

\* the keys of member_mapping visited as well
RewireTargetsWithKeys(member_mapping) ==
    DOMAIN member_mapping \cup
    UNION {Range(member_mapping[m]) : m \in DOMAIN member_mapping}

\* the Members the last loop visits: every element of member_mapping.values()
RewireTargets(member_mapping) ==
    UNION {Range(member_mapping[m]) : m \in DOMAIN member_mapping}

\* `for new_member_lists in member_mapping.values(): for new_member in ...`
Rewire(heap, member_mapping) ==
    [j \in DOMAIN heap |->
        IF j \in RewireTargets(member_mapping) /\ heap[j].reference_member # None
        THEN [heap[j] EXCEPT
                !.reference_member = ResolveReference(member_mapping, @)]
        ELSE heap[j]]

PatternResult(k, count, spacing_vector) ==
    LET sets == get_all_member_sets(k)
        p1 == NodeCopies(1, count, get_all_nodes(sets), spacing_vector,
                         [node_mapping |-> <<>>, nodes |-> nodes])
        p2 == MemberCopies(1, count, sets, p1.node_mapping,
                           [members |-> members, member_sets |-> member_sets,
                            member_mapping |-> <<>>, new_members |-> <<>>,
                            combined |-> sets, error |-> FALSE])
    IN [error |-> p2.error, nodes |-> p1.nodes,
        members |-> Rewire(p2.members, p2.member_mapping),
        member_sets |-> p2.member_sets, combined |-> p2.combined]

create_combined_model_pattern(k, count, spacing_vector) ==
    /\ LET r == PatternResult(k, count, spacing_vector)
       IN IF r.error
          THEN /\ last' = Outcome("create_combined_model_pattern", k, count,
                                  spacing_vector, "KeyError", None)
               /\ UNCHANGED <<nodes, members, member_sets, models, origin>>
          ELSE /\ nodes' = r.nodes
               /\ members' = r.members
               /\ member_sets' = r.member_sets
               /\ models' = Append(models, r.combined)
               /\ origin' = Append(origin, Call("create_combined_model_pattern", k,
                                                count, spacing_vector))
               /\ last' = Outcome("create_combined_model_pattern", k, count,
                                  spacing_vector, "ok", Len(models) + 1)

(* ---------------------------- specification ---------------------------- *)
Coords == 0 .. MaxCoord
Supports == 0 .. MaxSupport
Hinges == 0 .. MaxHinge
Points == {<<c, c + 1, 2 * c>> : c \in Coords}
Vectors == {<<d, 2 * d, -d>> : d \in -MaxShift .. MaxShift}
Counts == 1 .. MaxCount

NodeRefs == 1 .. Len(nodes)
MemberRefs == 1 .. Len(members)

\* sequences of distinct elements of S, of length 1 or 2
Picks(S) == {<<a>> : a \in S} \cup {p \in S \X S : p[1] # p[2]}

Translate == \E k \in 1 .. Len(models), v \in Vectors : translate_model(k, v)

Replicate ==
    \E k \in 1 .. Len(models), c \in Counts, v \in Vectors :
        create_combined_model_pattern(k, c, v)

NewSet == \E ms \in Picks(MemberRefs) : AddNewMemberSet(ms, "frame")

\* geometry: nodes that may coincide, plain members, one transformation
Next ==
    \/ \E p \in Points : NewNode(p[1], p[2], p[3], None, "None")
    \/ \E a \in NodeRefs, b \in NodeRefs :
          NewMember(a, b, 1, None, None, "beam", None, None)
    \/ NewSet
    \/ Len(models) = 1 /\ Translate
    \/ Len(models) = 1 /\ Replicate

Spec == Init /\ [][Next]_vars

\* references: nodes on a line, members with reference members and reference nodes
NextRef ==
    \/ \E c \in {Len(nodes)} : NewNode(c, c + 1, 2 * c, None, "None")
    \/ \E a \in NodeRefs, b \in NodeRefs, rm \in {None} \cup MemberRefs,
          rn \in {None} \cup NodeRefs :
          a < b /\ NewMember(a, b, 1, None, None, "beam", rm, rn)
    \/ NewSet
    \/ Len(models) = 1 /\ Translate
    \/ Len(models) = 1 /\ Replicate

SpecRef == Init /\ [][NextRef]_vars

\* attributes: nodes on a line with supports, members with hinges and sections
NextAttr ==
    \/ \E c \in {Len(nodes)}, s \in Supports :
          NewNode(c, c + 1, 2 * c, s, IF s = None THEN "None" ELSE "base")
    \/ \E a \in NodeRefs, b \in NodeRefs, h \in Hinges :
          a < b /\ NewMember(a, b, 1 + h, h, None, "beam", None, None)
    \/ NewSet
    \/ Len(models) = 1 /\ Translate
    \/ Len(models) = 1 /\ Replicate

SpecAttr == Init /\ [][NextAttr]_vars

\* repeated translation of a plain model
NextTwice ==
    \/ \E p \in Points : NewNode(p[1], p[2], p[3], None, "None")
    \/ \E a \in NodeRefs, b \in NodeRefs :
          NewMember(a, b, 1, None, None, "beam", None, None)
    \/ NewSet
    \/ Len(models) < MaxModels /\ Translate

SpecTwice == Init /\ [][NextTwice]_vars

(* ------------------------ vocabulary of the claims ---------------------- *)
Pattern == "create_combined_model_pattern"

SetMembers(k, j) == member_sets[models[k][j]].members

\* the places <<set position, member position>> of a model's walk
Occurrences(k) ==
    UNION {{<<j, p>> : p \in DOMAIN SetMembers(k, j)} : j \in DOMAIN models[k]}

MemberAt(k, occ) == SetMembers(k, occ[1])[occ[2]]

ModelMembers(k) == {MemberAt(k, occ) : occ \in Occurrences(k)}

ModelNodes(k) ==
    UNION {{members[m].start_node, members[m].end_node} : m \in ModelMembers(k)}

Coordinates(n) == <<nodes[n].X, nodes[n].Y, nodes[n].Z>>

Ends == {"start_node", "end_node"}

\* models returned by create_combined_model_pattern / translate_model
Patterned == {r \in DOMAIN models : origin[r].op = Pattern}
Translated == {r \in DOMAIN models : origin[r].op = "translate_model"}

Source(r) == origin[r].model

CopyIndices(r) == 1 .. origin[r].count - 1

\* the duplicate, in copy i of the combined model r, of the source member at occ
CopyOf(r, i, occ) ==
    MemberAt(r, <<Len(models[Source(r)]) * i + occ[1], occ[2]>>)

\* all duplicates in copy i of source member m
CopiesOf(r, i, m) ==
    {CopyOf(r, i, occ) : occ \in {o \in Occurrences(Source(r)) : MemberAt(Source(r), o) = m}}

\* the new member of the translated model r for the source member at occ
ImageOf(r, occ) == MemberAt(r, occ)

DanglingReferenceMember(k) ==
    \E m \in ModelMembers(k) :
        members[m].reference_member # None
        /\ members[m].reference_member \notin ModelMembers(k)

DanglingReferenceNode(k) ==
    \E m \in ModelMembers(k) :
        members[m].reference_node # None
        /\ members[m].reference_node \notin ModelNodes(k)

(* ------------------------------- claims --------------------------------- *)
\* C1: after create_combined_model_pattern with count >= 2, the duplicate in
\* copy i of a member A whose reference_member M belongs to the model has as
\* reference_member a duplicate of M in the same copy i.
C1_ReferenceMemberSameCopy ==
    \A r \in Patterned : \A i \in CopyIndices(r) : \A occ \in Occurrences(Source(r)) :
        LET M == members[MemberAt(Source(r), occ)].reference_member
        IN (M # None /\ M \in ModelMembers(Source(r)))
           => members[CopyOf(r, i, occ)].reference_member \in CopiesOf(r, i, M)

\* C2: within one copy of create_combined_model_pattern no two new Nodes lie
\* at the same coordinates: the duplicates of two distinct source Nodes with
\* identical coordinates are one and the same new Node.
C2_CoincidentNodesCollapse ==
    \A r \in Patterned : \A i \in CopyIndices(r) :
        \A o1 \in Occurrences(Source(r)), o2 \in Occurrences(Source(r)) :
            \A e1 \in Ends, e2 \in Ends :
                LET a == members[MemberAt(Source(r), o1)][e1]
                    b == members[MemberAt(Source(r), o2)][e2]
                    na == members[CopyOf(r, i, o1)][e1]
                    nb == members[CopyOf(r, i, o2)][e2]
                IN /\ (a # b /\ Coordinates(a) = Coordinates(b)) => na = nb
                   /\ na # nb => Coordinates(na) # Coordinates(nb)

\* C3: translate_model(model, v) creates for every unique source Node exactly
\* one new Node, at the source coordinates plus v, with the source Node's
\* nodal_support and classification.
C3_TranslatePreservesNodeAttributes ==
    \A r \in Translated :
        \A o1 \in Occurrences(Source(r)), o2 \in Occurrences(Source(r)) :
            \A e1 \in Ends, e2 \in Ends :
                LET v == origin[r].vector
                    a == members[MemberAt(Source(r), o1)][e1]
                    b == members[MemberAt(Source(r), o2)][e2]
                    na == members[ImageOf(r, o1)][e1]
                    nb == members[ImageOf(r, o2)][e2]
                IN /\ (a = b) <=> (na = nb)
                   /\ Coordinates(na) = <<nodes[a].X + v[1], nodes[a].Y + v[2],
                                          nodes[a].Z + v[3]>>
                   /\ nodes[na].nodal_support = nodes[a].nodal_support
                   /\ nodes[na].classification = nodes[a].classification

\* C4: create_combined_model_pattern with count >= 2 on a model with a Member
\* whose reference_member is in no MemberSet of the model ends in an error and
\* returns no combined model.
C4_DanglingReferenceMemberFails ==
    (last.op = Pattern /\ last.count >= 2 /\ DanglingReferenceMember(last.model))
        => (last.status # "ok" /\ last.result = None)

\* C5: create_combined_model_pattern with count >= 2 on a model with a Member
\* whose reference_node is no endpoint of any Member of the model fails with a
\* missing lookup key and returns no combined model.
C5_DanglingReferenceNodeFails ==
    /\ (last.op = Pattern /\ last.count >= 2 /\ DanglingReferenceNode(last.model))
          => (last.status = "KeyError" /\ last.result = None)
    /\ \A r \in Patterned :
          origin[r].count >= 2 => ~DanglingReferenceNode(Source(r))

C5_Witness ==
    /\ last.op = Pattern /\ last.count >= 2 /\ last.status = "KeyError"
    /\ DanglingReferenceNode(last.model)
    /\ ~DanglingReferenceMember(last.model)

\* C6: create_combined_model_pattern(model, 1, spacing) returns a model whose
\* member_sets are the original MemberSets, same objects in the same order, and
\* creates no Node, Member or MemberSet.
C6_CountOneIsIdentity ==
    [][(last' # last /\ last'.op = Pattern /\ last'.count = 1)
          => /\ last'.status = "ok"
             /\ models' = Append(models, models[last'.model])
             /\ nodes' = nodes
             /\ members' = members
             /\ member_sets' = member_sets]_vars

C6_Witness ==
    /\ last.op = Pattern /\ last.count = 1 /\ last.status = "ok"
    /\ last.vector # <<0, 0, 0>>
    /\ Len(models[last.result]) = 2

\* C7: the combined model holds the original MemberSets followed by count - 1
\* copies; in copy i every duplicated Member's start and end Nodes lie at the
\* source coordinates plus i * spacing, and two distinct source Nodes share a
\* duplicate only if they had identical coordinates.
C7_CopiesAtMultiplesOfSpacing ==
    \A r \in Patterned :
        LET n == Len(models[Source(r)])
            v == origin[r].vector
        IN /\ Len(models[r]) = n * origin[r].count
           /\ SubSeq(models[r], 1, n) = models[Source(r)]
           /\ \A i \in CopyIndices(r) :
                /\ \A j \in 1 .. n :
                      Len(SetMembers(r, n * i + j)) = Len(SetMembers(Source(r), j))
                /\ \A o1 \in Occurrences(Source(r)), o2 \in Occurrences(Source(r)) :
                      \A e1 \in Ends, e2 \in Ends :
                          LET a == members[MemberAt(Source(r), o1)][e1]
                              b == members[MemberAt(Source(r), o2)][e2]
                              na == members[CopyOf(r, i, o1)][e1]
                              nb == members[CopyOf(r, i, o2)][e2]
                          IN /\ Coordinates(na) = <<nodes[a].X + i * v[1],
                                                    nodes[a].Y + i * v[2],
                                                    nodes[a].Z + i * v[3]>>
                             /\ (a # b /\ na = nb) => Coordinates(a) = Coordinates(b)

C7_Witness ==
    \E r \in Patterned :
        /\ origin[r].count = 3
        /\ origin[r].vector # <<0, 0, 0>>
        /\ \E a \in ModelNodes(Source(r)), b \in ModelNodes(Source(r)) :
              a # b /\ Coordinates(a) = Coordinates(b)
        /\ \E a \in ModelNodes(Source(r)), b \in ModelNodes(Source(r)) :
              Coordinates(a) # Coordinates(b)

\* the places <<set position, member position, end>> of a model's node walk
NodePlaces(k) == {<<occ[1], occ[2], e>> : occ \in Occurrences(k), e \in 1 .. 2}

NodeAt(k, pl) ==
    members[MemberAt(k, <<pl[1], pl[2]>>)][IF pl[3] = 1 THEN "start_node" ELSE "end_node"]

\* walk order: set by set, member by member, start node before end node
Before(p, q) ==
    \/ p[1] < q[1]
    \/ p[1] = q[1] /\ p[2] < q[2]
    \/ p[1] = q[1] /\ p[2] = q[2] /\ Len(p) = 3 /\ p[3] < q[3]

FirstNodePlace(k, n) ==
    CHOOSE p \in NodePlaces(k) :
        NodeAt(k, p) = n /\ \A q \in NodePlaces(k) : NodeAt(k, q) = n => (q = p \/ Before(p, q))

FirstMemberPlace(k, m) ==
    CHOOSE p \in Occurrences(k) :
        MemberAt(k, p) = m
        /\ \A q \in Occurrences(k) : MemberAt(k, q) = m => (q = p \/ Before(p, q))

NoRepeat(seq) == \A a \in DOMAIN seq, b \in DOMAIN seq : a # b => seq[a] # seq[b]

\* C8: get_all_nodes and get_all_members return every Node / Member the model's
\* MemberSets refer to exactly once, in the order of first occurrence in the
\* walk (sets in insertion order, members in order, start before end).
C8_EnumerationIsDeduplicated ==
    \A k \in DOMAIN models :
        LET N == get_all_nodes(models[k])
            M == get_all_members(models[k])
        IN /\ NoRepeat(N)
           /\ Range(N) = ModelNodes(k)
           /\ \A a \in DOMAIN N, b \in DOMAIN N :
                 a < b => Before(FirstNodePlace(k, N[a]), FirstNodePlace(k, N[b]))
           /\ NoRepeat(M)
           /\ Range(M) = ModelMembers(k)
           /\ \A a \in DOMAIN M, b \in DOMAIN M :
                 a < b => Before(FirstMemberPlace(k, M[a]), FirstMemberPlace(k, M[b]))

C8_Witness ==
    /\ Len(models[1]) = 2
    /\ Cardinality(Occurrences(1)) > Cardinality(ModelMembers(1))
    /\ Cardinality(ModelMembers(1)) = 2
    /\ Len(get_all_nodes(models[1])) = 3
    /\ members[MemberAt(1, <<1, 1>>)].start_node > members[MemberAt(1, <<1, 1>>)].end_node

\* C9: translate_model and create_combined_model_pattern leave their input as
\* it was: no existing Node, Member or MemberSet changes and no existing
\* model's member_sets list changes.
C9_InputNotMutated ==
    [][(last' # last)
          => /\ \A n \in DOMAIN nodes : nodes'[n] = nodes[n]
             /\ \A m \in DOMAIN members : members'[m] = members[m]
             /\ \A s \in DOMAIN member_sets : member_sets'[s] = member_sets[s]
             /\ \A k \in DOMAIN models : models'[k] = models[k]]_vars

C9_Witness ==
    /\ last.op = Pattern /\ last.status = "ok" /\ last.count >= 2
    /\ \E m \in ModelMembers(last.model) :
          /\ members[m].reference_member \in ModelMembers(last.model)
          /\ members[m].reference_node \in ModelNodes(last.model)

Negated(v) == <<-v[1], -v[2], -v[3]>>

\* a model translated by v and then by -v
RoundTrips ==
    {r \in Translated :
        Source(r) \in Translated /\ origin[r].vector = Negated(origin[Source(r)].vector)}

\* C10: translate_model(translate_model(model, v), -v) has the shape of the
\* original; its unique Nodes, in enumeration order, have the coordinates of
\* the original's, and its Members connect the corresponding Nodes.
C10_TranslateRoundTrip ==
    \A r \in RoundTrips :
        LET o == Source(Source(r))
            A == get_all_nodes(models[r])
            B == get_all_nodes(models[o])
        IN /\ Occurrences(r) = Occurrences(o)
           /\ Len(A) = Len(B)
           /\ \A j \in DOMAIN A : Coordinates(A[j]) = Coordinates(B[j])
           /\ \A occ \in Occurrences(o) : \A e \in Ends :
                 IndexOf(A, members[MemberAt(r, occ)][e])
                    = IndexOf(B, members[MemberAt(o, occ)][e])

C10_Witness ==
    \E r \in RoundTrips :
        /\ origin[r].vector # <<0, 0, 0>>
        /\ Len(get_all_nodes(models[r])) = 3
        /\ Cardinality(Occurrences(r)) >= 3

\* C13: after create_combined_model_pattern with count >= 2, the duplicate in
\* copy i of a Member whose reference_node is an endpoint in the model has as
\* reference_node the Node that copy i uses for that source Node, at the source
\* coordinates plus i * spacing; a Member without reference_node yields
\* duplicates without one.
C13_ReferenceNodeSameCopy ==
    \A r \in Patterned : \A i \in CopyIndices(r) : \A occ \in Occurrences(Source(r)) :
        LET v == origin[r].vector
            rn == members[MemberAt(Source(r), occ)].reference_node
            new_rn == members[CopyOf(r, i, occ)].reference_node
        IN /\ rn = None => new_rn = None
           /\ (rn # None /\ rn \in ModelNodes(Source(r)))
                 => /\ new_rn \in DOMAIN nodes
                    /\ Coordinates(new_rn) = <<nodes[rn].X + i * v[1],
                                               nodes[rn].Y + i * v[2],
                                               nodes[rn].Z + i * v[3]>>
                    /\ \A o2 \in Occurrences(Source(r)) : \A e \in Ends :
                          members[MemberAt(Source(r), o2)][e] = rn
                             => members[CopyOf(r, i, o2)][e] = new_rn

C13_Witness ==
    \E r \in Patterned :
        /\ origin[r].count = 3
        /\ origin[r].vector # <<0, 0, 0>>
        /\ \E m \in ModelMembers(Source(r)) : members[m].reference_node # None
        /\ \E m \in ModelMembers(Source(r)) : members[m].reference_node = None

\* C14: translate_model keeps the shape of the graph: the same MemberSets in
\* the same order with the same number of Members; two source Members share
\* an endpoint Node exactly when their translated Members share the new Node,
\* so there are as many unique Nodes as in the source; every new Member has
\* its source's section, start and end hinge and classification.
C14_TranslatePreservesConnectivity ==
    \A r \in Translated :
        /\ Len(models[r]) = Len(models[Source(r)])
        /\ Occurrences(r) = Occurrences(Source(r))
        /\ \A j \in DOMAIN models[Source(r)] :
              /\ member_sets[models[r][j]].classification
                    = member_sets[models[Source(r)][j]].classification
              /\ member_sets[models[r][j]].member_set_id
                    = member_sets[models[Source(r)][j]].member_set_id
        /\ Len(get_all_nodes(models[r])) = Len(get_all_nodes(models[Source(r)]))
        /\ \A o1 \in Occurrences(Source(r)) :
              LET m == members[MemberAt(Source(r), o1)]
                  t == members[ImageOf(r, o1)]
              IN /\ t.section = m.section
                 /\ t.start_hinge = m.start_hinge
                 /\ t.end_hinge = m.end_hinge
                 /\ t.classification = m.classification
                 /\ \A o2 \in Occurrences(Source(r)) : \A e1 \in Ends, e2 \in Ends :
                       (m[e1] = members[MemberAt(Source(r), o2)][e2])
                          <=> (t[e1] = members[ImageOf(r, o2)][e2])

C14_Witness ==
    \E r \in Translated :
        /\ Len(models[r]) = 2
        /\ Cardinality(ModelMembers(r)) = 3
        /\ Len(get_all_nodes(models[r])) = 3
        /\ origin[r].vector # <<0, 0, 0>>
        /\ \E m \in ModelMembers(r) : members[m].start_hinge # None
        /\ \E m \in ModelMembers(r) : members[m].start_hinge = None

\* C15: get_unique_nodal_support of a model holds exactly one entry for every
\* distinct NodalSupport that a start or end Node of the model references, and
\* no other entry, however many Nodes share the support.
C15_OneEntryPerNodalSupport ==
    \A k \in DOMAIN models :
        LET unique == get_unique_nodal_support(get_all_member_sets(k))
            referenced == {nodes[n].nodal_support : n \in ModelNodes(k)} \ {None}
        IN /\ {unique[key] : key \in DOMAIN unique} = referenced
           /\ \A s \in referenced :
                 Cardinality({key \in DOMAIN unique : unique[key] = s}) = 1

(* ------------------- deformation_utils: arithmetic --------------------- *)
\* The functions of deformation_utils compute in binary floating point.  A
\* number is held as an integer count of 1/Unit; a value is representable
\* when that count has at most Precision significant bits, and every
\* operation returns the representable value nearest to the exact result,
\* a tie going to the even one.
Precision == 3
FractionBits == 3
MaxPoints == 3
MaxDisp == 10

Unit == 2 ^ FractionBits
One == Unit

Abs(x) == IF x < 0 THEN -x ELSE x

\* the spacing of the representable values around n / d
RECURSIVE Quantum(_, _, _)
Quantum(n, d, q) ==
    IF Abs(n) < (2 ^ Precision) * q * d THEN q ELSE Quantum(n, d, 2 * q)

RoundHalfEven(n, d) ==
    LET f == n \div d
        rem == n - f * d
    IN IF 2 * rem < d THEN f
       ELSE IF 2 * rem > d THEN f + 1
       ELSE IF f % 2 = 0 THEN f ELSE f + 1

\* the representable value nearest to n / d counts of 1/Unit, d > 0
Round(n, d) == LET q == Quantum(n, d, 1) IN q * RoundHalfEven(n, d * q)

Representable(x) == Round(x, 1) = x

Add(a, b) == Round(a + b, 1)
Sub(a, b) == Round(a - b, 1)
Mul(a, b) == Round(a * b, Unit)
Div(a, b) == IF b > 0 THEN Round(a * Unit, b) ELSE Round(-(a * Unit), -b)
Neg(a) == -a

\* a ** k for k >= 1
RECURSIVE ExactPower(_, _)
ExactPower(a, k) == IF k = 1 THEN a ELSE a * ExactPower(a, k - 1)

Pow(a, k) == Round(ExactPower(a, k), Unit ^ (k - 1))

\* an integer literal of the source
Lit(i) == i * Unit

\* np.linspace(0, 1, num): i * step for the samples before the last, the
\* last one set to the stop value
linspace(num) ==
    [i \in 1 .. num |->
        IF num = 1 THEN 0
        ELSE IF i = num THEN One
        ELSE Mul(Lit(i - 1), Div(One, Lit(num - 1)))]

(* ------------------ deformation_utils: the functions ------------------- *)
\* columns stacked as rows
get_rotation_matrix_rows(local_x, local_y, local_z) ==
    <<local_x, local_y, local_z>>

\* np.column_stack([local_x, local_y, local_z]); R[i][j] is row i, column j
get_rotation_matrix(local_x, local_y, local_z) ==
    [i \in 1 .. 3 |-> <<local_x[i], local_y[i], local_z[i]>>]

\* R.T
Transpose(R) == [i \in 1 .. 3 |-> [j \in 1 .. 3 |-> R[j][i]]]

\* A @ v for a 3x3 matrix and a vector
MatVec(A, v) ==
    [i \in 1 .. 3 |->
        Add(Add(Mul(A[i][1], v[1]), Mul(A[i][2], v[2])), Mul(A[i][3], v[3]))]

transform_dofs_global_to_local(d_global, r_global, R) ==
    LET d_local == MatVec(Transpose(R), d_global)
        r_local == MatVec(Transpose(R), r_global)
    IN <<d_local, r_local>>

\* the Hermite basis at one sample t
h1(t) == Add(Sub(Mul(Lit(2), Pow(t, 3)), Mul(Lit(3), Pow(t, 2))), Lit(1))
h2(t) == Add(Mul(Lit(-2), Pow(t, 3)), Mul(Lit(3), Pow(t, 2)))
h3(t) == Add(Sub(Pow(t, 3), Mul(Lit(2), Pow(t, 2))), t)
h4(t) == Sub(Pow(t, 3), Pow(t, 2))

\* u0*h1 + u1*h2 + slope0*h3 + slope1*h4 at one sample t
Hermite(u0, u1, slope0, slope1, t) ==
    Add(Add(Add(Mul(u0, h1(t)), Mul(u1, h2(t))), Mul(slope0, h3(t))), Mul(slope1, h4(t)))

interpolate_beam_local(xstart, xend, local_disp_start, local_disp_end, local_rot_start, local_rot_end, n_points) ==
    LET L == Sub(xend, xstart)
        t == linspace(n_points)
        uxs == local_disp_start[1]
        uys == local_disp_start[2]
        uzs == local_disp_start[3]
        uxe == local_disp_end[1]
        uye == local_disp_end[2]
        uze == local_disp_end[3]
        rys == local_rot_start[2]
        rzs == local_rot_start[3]
        rye == local_rot_end[2]
        rze == local_rot_end[3]
        slope_y0 == Mul(L, rzs)
        slope_y1 == Mul(L, rze)
        slope_z0 == Mul(Neg(L), rys)
        slope_z1 == Mul(Neg(L), rye)
    IN [i \in 1 .. n_points |->
           <<Add(uxs, Mul(Sub(uxe, uxs), t[i])),
             Hermite(uys, uye, slope_y0, slope_y1, t[i]),
             Hermite(uzs, uze, slope_z0, slope_z1, t[i])>>]

(* --------------- deformation_utils: the specification ------------------ *)
Displacement == {x \in -MaxDisp .. MaxDisp : Representable(x)}
Displacements == {<<a, b, Neg(b)>> : a \in Displacement, b \in {0, One}}
Rotations == {<<0, r, Neg(r)>> : r \in {0, One}}
Stations == {<<0, One>>, <<One, Lit(3)>>}

UnitVectors ==
    {<<One, 0, 0>>, <<0, One, 0>>, <<0, 0, One>>,
     <<-One, 0, 0>>, <<0, -One, 0>>, <<0, 0, -One>>}
GlobalVectors == UnitVectors \cup {<<0, 0, 0>>, <<One, -One, Lit(2)>>}

InterpolateCalls ==
    [op : {"interpolate_beam_local"}, status : {"called"},
     station : Stations,
     local_disp_start : Displacements, local_disp_end : Displacements,
     local_rot_start : Rotations, local_rot_end : Rotations,
     n_points : 1 .. MaxPoints, result : {None}]

TransformCalls ==
    [op : {"get_rotation_matrix"}, status : {"called"},
     local_x : UnitVectors, local_y : UnitVectors, local_z : UnitVectors,
     d_global : GlobalVectors, r_global : GlobalVectors,
     R : {None}, result : {None}]

InitDeformation ==
    /\ nodes = <<>>
    /\ members = <<>>
    /\ member_sets = <<>>
    /\ models = << <<>> >>
    /\ origin = << [op |-> "FERS", model |-> None, count |-> 0, vector |-> <<0, 0, 0>>] >>
    /\ last \in InterpolateCalls \cup TransformCalls

InterpolateBeamLocal ==
    /\ last.op = "interpolate_beam_local" /\ last.status = "called"
    /\ last' = [last EXCEPT
                  !.status = "ok",
                  !.result = interpolate_beam_local(
                                 last.station[1], last.station[2],
                                 last.local_disp_start, last.local_disp_end,
                                 last.local_rot_start, last.local_rot_end,
                                 last.n_points)]
    /\ UNCHANGED <<nodes, members, member_sets, models, origin>>

GetRotationMatrix ==
    /\ last.op = "get_rotation_matrix" /\ last.status = "called"
    /\ last' = [last EXCEPT
                  !.status = "ok",
                  !.R = get_rotation_matrix(last.local_x, last.local_y, last.local_z)]
    /\ UNCHANGED <<nodes, members, member_sets, models, origin>>

TransformDofs ==
    /\ last.op = "get_rotation_matrix" /\ last.status = "ok"
    /\ last' = [last EXCEPT
                  !.op = "transform_dofs_global_to_local",
                  !.result = transform_dofs_global_to_local(
                                 last.d_global, last.r_global, last.R)]
    /\ UNCHANGED <<nodes, members, member_sets, models, origin>>

NextDeformation ==
    \/ InterpolateBeamLocal
    \/ GetRotationMatrix
    \/ TransformDofs

SpecDeformation == InitDeformation /\ [][NextDeformation]_vars

(* ----------------------- deformation_utils: claims --------------------- *)
\* C11: interpolate_beam_local with n_points = 2 returns two samples, the
\* first equal to local_disp_start and the last equal to local_disp_end, for
\* every length and every pair of end rotations.
C11_EndpointsExact ==
    (last.op = "interpolate_beam_local" /\ last.status = "ok" /\ last.n_points = 2)
        => /\ Len(last.result) = 2
           /\ last.result[1] = last.local_disp_start
           /\ last.result[2] = last.local_disp_end

\* exact dot product of two vectors held in counts of 1/Unit
ExactDot(u, v) == u[1] * v[1] + u[2] * v[2] + u[3] * v[3]

Orthonormal(x, y, z) ==
    /\ ExactDot(x, x) = Unit * Unit /\ ExactDot(y, y) = Unit * Unit
    /\ ExactDot(z, z) = Unit * Unit
    /\ ExactDot(x, y) = 0 /\ ExactDot(y, z) = 0 /\ ExactDot(x, z) = 0

Basis(k) == [i \in 1 .. 3 |-> IF i = k THEN One ELSE 0]

LocalAxes == <<last.local_x, last.local_y, last.local_z>>

\* C12: for mutually orthonormal local axes and R = get_rotation_matrix of
\* them, transform_dofs_global_to_local sends a global displacement equal to
\* the k-th local axis to the k-th standard basis vector, and a global
\* rotation equal to the j-th local axis to the j-th standard basis vector,
\* each whatever the other argument is.
C12_LocalAxisToBasisVector ==
    (last.op = "transform_dofs_global_to_local"
          /\ Orthonormal(last.local_x, last.local_y, last.local_z))
        => \A k \in 1 .. 3 :
              /\ last.d_global = LocalAxes[k] => last.result[1] = Basis(k)
              /\ last.r_global = LocalAxes[k] => last.result[2] = Basis(k)

C12_Witness ==
    /\ last.op = "transform_dofs_global_to_local"
    /\ Orthonormal(last.local_x, last.local_y, last.local_z)
    /\ last.R # Transpose(last.R)
    /\ last.d_global = last.local_x
    /\ last.r_global = last.local_z
    /\ last.result = <<Basis(1), Basis(3)>>

=============================================================================
